---- MODULE Spec2Model ----
(***************************************************************************)
(* Priority Flow Planner: the priority/status engine of planner_db.py      *)
(* (recalc_priority and its helpers, top5), the task store, and the        *)
(* callers that write to it (the WhatsApp webhook of fastapi_app.py and    *)
(* the Streamlit form of priority_flow_planner.py).                        *)
(*                                                                         *)
(* Conventions.                                                            *)
(*  - A Python str is a sequence of one-character strings, so that         *)
(*    str.strip, str.lower and str.isdigit are computed, not assumed.      *)
(*  - A Python value of varying type (effort, due_date, a dependency id)   *)
(*    is a tagged record, see PyInt, PyStr, PyNone, PyDate.                *)
(*  - A Python float is an exact rational <<numerator, denominator>> in    *)
(*    lowest terms with a positive denominator (rounding is not modelled). *)
(*  - A call that raises is a result with raised = TRUE.                   *)
(*  - A pandas row / dict is a record; a missing key is a missing field.   *)
(*    The columns title, description, category, tags and last_updated are  *)
(*    never read by the engine or by top5's ordering and are left out.     *)
(***************************************************************************)
EXTENDS Integers, Sequences, FiniteSets, TLC

VARIABLES row, tasks_df, days_window, today, pc, result, locals, store, t5,
          dangling, requests

vars == <<row, tasks_df, days_window, today, pc, result, locals, store, t5,
          dangling, requests>>

-----------------------------------------------------------------------------
(* Bounds of the model.                                                    *)

\* longest required_info / received_info list drawn as an input
MaxInfo == 2
\* calendar days 0..MaxDay
MaxDay == 16
\* days_window values 1..MaxWindow, next to the default
MaxWindow == 3
\* most rows of a table handed to top5
MaxRows == 6
\* most records in the store
MaxTasks == 2
\* task ids 1..MaxId exist as dependency targets / store keys
MaxId == 2

-----------------------------------------------------------------------------
(* Python floats as exact rationals.                                       *)

Abs(n) == IF n < 0 THEN -n ELSE n

RECURSIVE GCD(_, _)
GCD(a, b) == IF b = 0 THEN a ELSE GCD(b, a % b)

\* n / d for d # 0, in lowest terms, denominator positive
Rat(n, d) ==
    LET g == GCD(Abs(n), Abs(d))
        sg == IF d < 0 THEN -1 ELSE 1
    IN  <<(sg * n) \div g, (sg * d) \div g>>

RInt(n) == <<n, 1>>
RAdd(a, b) == Rat(a[1] * b[2] + b[1] * a[2], a[2] * b[2])
RSub(a, b) == Rat(a[1] * b[2] - b[1] * a[2], a[2] * b[2])
RMul(a, b) == Rat(a[1] * b[1], a[2] * b[2])
RLe(a, b) == a[1] * b[2] <= b[1] * a[2]
RLt(a, b) == a[1] * b[2] < b[1] * a[2]
RMax(a, b) == IF RLt(a, b) THEN b ELSE a
RMin(a, b) == IF RLt(b, a) THEN b ELSE a

-----------------------------------------------------------------------------
(* Python strings and values.                                              *)

Range(s) == {s[i] : i \in 1..Len(s)}

DigitChars == <<"0", "1", "2", "3", "4", "5", "6", "7", "8", "9">>

IsDigitChar(c) == c \in Range(DigitChars)

DigitVal(c) == (CHOOSE k \in 1..10 : DigitChars[k] = c) - 1

\* str.isdigit(): non-empty and every character a digit
IsDigit(s) == Len(s) > 0 /\ \A i \in 1..Len(s) : IsDigitChar(s[i])

RECURSIVE DecimalValue(_)
DecimalValue(s) ==
    IF s = <<>> THEN 0
    ELSE 10 * DecimalValue(SubSeq(s, 1, Len(s) - 1)) + DigitVal(s[Len(s)])

LowerChar(c) == IF c = "X" THEN "x" ELSE IF c = "Y" THEN "y" ELSE c

\* str.lower()
Lower(s) == [i \in 1..Len(s) |-> LowerChar(s[i])]

RECURSIVE LStrip(_)
LStrip(s) == IF s # <<>> /\ Head(s) = " " THEN LStrip(Tail(s)) ELSE s

RECURSIVE RStrip(_)
RStrip(s) ==
    IF s # <<>> /\ s[Len(s)] = " " THEN RStrip(SubSeq(s, 1, Len(s) - 1)) ELSE s

\* str.strip()
Strip(s) == RStrip(LStrip(s))

PyInt(n) == [t |-> "int", i |-> n, s |-> <<>>]
PyStr(str) == [t |-> "str", i |-> 0, s |-> str]
PyNone == [t |-> "None", i |-> 0, s |-> <<>>]
\* the str that is the ISO text of the calendar day with ordinal d
PyDate(d) == [t |-> "date", i |-> d, s |-> <<>>]

\* row.get(key, default)
Get(r, key, default) == IF key \in DOMAIN r THEN r[key] ELSE default

\* int(v): an int is itself, a str is parsed after stripping (an optional
\* sign is not modelled), anything else raises
ToInt(v) ==
    IF v.t = "int" THEN [raised |-> FALSE, v |-> v.i]
    ELSE IF v.t = "str" /\ IsDigit(Strip(v.s))
         THEN [raised |-> FALSE, v |-> DecimalValue(Strip(v.s))]
         ELSE [raised |-> TRUE, v |-> 0]

-----------------------------------------------------------------------------
(* planner_db.py: the scoring helpers.                                     *)

DefaultDaysWindow == 14

ImpactPoints(impact) ==
    IF impact = "Low" THEN 5
    ELSE IF impact = "Medium" THEN 15
    ELSE IF impact = "High" THEN 30
    ELSE IF impact = "Critical" THEN 40
    ELSE 15

\* dateparser.parse(due).date(): the day of an ISO text; other text raises
ParseDate(due) ==
    IF due.t = "date" THEN [raised |-> FALSE, v |-> due.i]
    ELSE [raised |-> TRUE, v |-> 0]

\* "not due": None and the empty str
NotDue(due) == due.t = "None" \/ (due.t = "str" /\ due.s = <<>>)

\* mutation: the ramp is not floored at 0
UrgencyPoints_NoFloor(due, window, now) ==
    IF NotDue(due) THEN [raised |-> FALSE, v |-> RInt(0)]
    ELSE LET p == ParseDate(due) IN
         IF p.raised THEN [raised |-> FALSE, v |-> RInt(0)]
         ELSE LET days_left == p.v - now IN
              IF days_left <= 0 THEN [raised |-> FALSE, v |-> RInt(30)]
              ELSE IF window = 0 THEN [raised |-> TRUE, v |-> RInt(0)]
              ELSE LET score == RMul(RInt(30),
                                     RSub(RInt(1), Rat(days_left, window)))
                   IN  [raised |-> FALSE, v |-> RMin(RInt(30), score)]

UrgencyPoints(due, window, now) ==
    IF NotDue(due) THEN [raised |-> FALSE, v |-> RInt(0)]
    ELSE LET p == ParseDate(due) IN
         IF p.raised THEN [raised |-> FALSE, v |-> RInt(0)]
         ELSE LET days_left == p.v - now IN
              IF days_left <= 0 THEN [raised |-> FALSE, v |-> RInt(30)]
              ELSE IF window = 0 THEN [raised |-> TRUE, v |-> RInt(0)]
              ELSE LET score == RMax(RInt(0),
                                     RMul(RInt(30),
                                          RSub(RInt(1), Rat(days_left, window))))
                   IN  [raised |-> FALSE, v |-> RMin(RInt(30), score)]

Max(a, b) == IF a < b THEN b ELSE a
Min(a, b) == IF b < a THEN b ELSE a

InfoPoints(required, received) ==
    IF required = <<>> THEN RInt(0)
    ELSE LET got == Cardinality({Lower(Strip(x)) : x \in Range(received)}
                                \cap {Lower(Strip(x)) : x \in Range(required)})
             ratio == Rat(got, Max(1, Len(required)))
         IN  RMul(RInt(40), ratio)

EffortPenalty(effort) ==
    LET e == Max(1, Min(8, effort))
    IN  RMul(Rat(-3, 2), RInt(e - 1))

\* mutation: the penalty looks at the dependencies only
BlockedPenalty_DepsOnly(status, deps_open) ==
    IF deps_open THEN RInt(-25) ELSE RInt(0)

\* mutation: the penalty looks at the status only
BlockedPenalty_StatusOnly(status, deps_open) ==
    IF status = "Blocked" THEN RInt(-25) ELSE RInt(0)

BlockedPenalty(status, deps_open) ==
    IF status = "Blocked" \/ deps_open THEN RInt(-25) ELSE RInt(0)

\* mutation: strict comparisons at the boundaries
LabelFromScore_Strict(score) ==
    IF RLt(RInt(80), score) THEN "P1"
    ELSE IF RLt(RInt(60), score) THEN "P2"
    ELSE IF RLt(RInt(40), score) THEN "P3"
    ELSE "P4"

LabelFromScore(score) ==
    IF RLe(RInt(80), score) THEN "P1"
    ELSE IF RLe(RInt(60), score) THEN "P2"
    ELSE IF RLe(RInt(40), score) THEN "P3"
    ELSE "P4"

-----------------------------------------------------------------------------
(* planner_db.py: recalc_priority.                                         *)

\* the filter of the dep_ids comprehension: str(d).isdigit() or isinstance(d, int)
IsDepId(d) == d.t = "int" \/ (d.t = "str" /\ IsDigit(d.s))

\* int(d) for a d that passed IsDepId
DepInt(d) == IF d.t = "int" THEN d.i ELSE DecimalValue(d.s)

\* mutation: only ids that have a row can be open
OpenIds_KnownOnly(deps, df) ==
    LET dep_ids == {DepInt(d) : d \in {x \in Range(deps) : IsDepId(x)}}
    IN  {df[k].id : k \in {j \in 1..Len(df) :
                              /\ df[j].id \in dep_ids
                              /\ Get(df[j], "status", "") # "Done"}}

\* the ids of the dependencies that no row of the snapshot shows as Done
OpenIds(deps, df) ==
    LET dep_ids == {DepInt(d) : d \in {x \in Range(deps) : IsDepId(x)}}
        done == {df[k].id : k \in {j \in 1..Len(df) :
                                     /\ df[j].id \in dep_ids
                                     /\ Get(df[j], "status", "") = "Done"}}
    IN  dep_ids \ done

\* line 166: only lower() is applied, and the divisor is the list's length
InfoRatio(required, received) ==
    IF required = <<>> THEN RInt(0)
    ELSE RMin(RInt(1),
              Rat(Cardinality({Lower(x) : x \in Range(received)}
                              \cap {Lower(x) : x \in Range(required)}),
                  Len(required)))

Raised == [raised |-> TRUE, score |-> RInt(0), label |-> "", status |-> "",
           escalated |-> FALSE]

\* the local variables of one call of recalc_priority (lines 143-161):
\* deps_open and the five terms; raised when _urgency_points or int(effort)
\* raises, in which case the call returns nothing
Terms(r, df, window, now) ==
    LET required == Get(r, "required_info", <<>>)
        received == Get(r, "received_info", <<>>)
        deps == Get(r, "dependencies", <<>>)
        deps_open == OpenIds(deps, df) # {}
        urg == UrgencyPoints(Get(r, "due_date", PyNone), window, now)
        eff == ToInt(Get(r, "effort", PyInt(3)))
    IN  [called |-> TRUE,
         raised |-> (urg.raised \/ eff.raised),
         deps_open |-> deps_open,
         base |-> ImpactPoints(Get(r, "business_impact", "Medium")),
         urgency |-> urg.v,
         info |-> InfoPoints(required, received),
         effort_pen |-> EffortPenalty(eff.v),
         blocked_pen |-> BlockedPenalty(Get(r, "status", "Backlog"), deps_open)]

\* mutation: the dependency gate spares Blocked only, not Done
RecalcPriority_GateOverridesDone(r, df, window, now) ==
    LET t == Terms(r, df, window, now)
        required == Get(r, "required_info", <<>>)
        received == Get(r, "received_info", <<>>)
        status0 == Get(r, "status", "Backlog")
    IN  IF t.raised THEN Raised
        ELSE
        LET total == RAdd(RAdd(RAdd(RAdd(RInt(t.base), t.urgency), t.info),
                               t.effort_pen),
                          t.blocked_pen)
            score == RMax(RInt(0), RMin(RInt(100), total))
            label == LabelFromScore(score)
            info_ratio == InfoRatio(required, received)
            status1 == IF status0 = "Waiting Info" /\ RLe(RInt(1), info_ratio)
                       THEN "Backlog" ELSE status0
            status2 == IF t.deps_open /\ status1 # "Blocked"
                       THEN "Blocked" ELSE status1
        IN  [raised |-> FALSE, score |-> score, label |-> label,
             status |-> status2,
             escalated |-> (label = "P1" /\ RLe(RInt(1), info_ratio))]

RecalcPriority(r, df, window, now) ==
    LET t == Terms(r, df, window, now)
        required == Get(r, "required_info", <<>>)
        received == Get(r, "received_info", <<>>)
        status0 == Get(r, "status", "Backlog")
    IN  IF t.raised THEN Raised
        ELSE
        LET total == RAdd(RAdd(RAdd(RAdd(RInt(t.base), t.urgency), t.info),
                               t.effort_pen),
                          t.blocked_pen)
            score == RMax(RInt(0), RMin(RInt(100), total))
            label == LabelFromScore(score)
            info_ratio == InfoRatio(required, received)
            status1 == IF status0 = "Waiting Info" /\ RLe(RInt(1), info_ratio)
                       THEN "Backlog" ELSE status0
            status2 == IF t.deps_open /\ status1 \notin {"Done", "Blocked"}
                       THEN "Blocked" ELSE status1
        IN  [raised |-> FALSE, score |-> score, label |-> label,
             status |-> status2,
             escalated |-> (label = "P1" /\ RLe(RInt(1), info_ratio))]

-----------------------------------------------------------------------------
(* The engine applied to task records: inputs, scoring, write-back.        *)

Statuses == {"Backlog", "Waiting Info", "In Progress", "Blocked", "Done"}
Impacts == {"Low", "Medium", "High", "Critical"}

\* free-text info labels: "x", "X", " x" and "y"
Items == {<<"x">>, <<"X">>, <<" ", "x">>, <<"y">>}

SeqsUpTo(S, n) == UNION {[1..k -> S] : k \in 0..n}

\* a task record as fetch_tasks_df builds it (planner_db.py lines 52-68)
Task(id, status, impact, effort, due, required, received, deps, label, score) ==
    [id |-> id, status |-> status, business_impact |-> impact,
     effort |-> effort, due_date |-> due, required_info |-> required,
     received_info |-> received, dependencies |-> deps,
     priority_label |-> label, priority_score |-> score]

\* a dict without the keys K
Drop(r, K) == [k \in DOMAIN r \ K |-> r[k]]

\* the ids of a set in ascending order, as a list
RECURSIVE SortedIds(_)
SortedIds(S) ==
    IF S = {} THEN <<>>
    ELSE LET m == CHOOSE x \in S : \A y \in S : x <= y
         IN  <<m>> \o SortedIds(S \ {m})

\* a snapshot of the tasks table: the rows of the ids f maps to a status
Snapshot(f) ==
    LET ids == SortedIds({i \in DOMAIN f : f[i] # "absent"})
    IN  [k \in 1..Len(ids) |->
            Task(ids[k], f[ids[k]], "Medium", PyInt(3), PyNone, <<>>, <<>>,
                 <<>>, "P4", RInt(0))]

Snapshots == {Snapshot(f) : f \in [1..MaxId -> {"absent", "Backlog", "Done"}]}

DepLists == {[k \in 1..Len(SortedIds(S)) |-> PyInt(SortedIds(S)[k])] :
                S \in SUBSET (1..MaxId)}

\* inputs that vary the dependencies and the snapshot
DepInputs ==
    \E st \in Statuses,
       d \in {<<"Medium", 3, PyNone>>, <<"Critical", 1, PyDate(0)>>},
       req \in SeqsUpTo({<<"x">>}, MaxInfo),
       rec \in SeqsUpTo({<<"x">>}, MaxInfo),
       deps \in DepLists, df \in Snapshots :
        /\ row = Task(-1, st, d[1], PyInt(d[2]), d[3], req, rec, deps, "P4",
                      RInt(0))
        /\ tasks_df = df

\* inputs that vary the scored fields
ScoreInputs ==
    \E st \in Statuses, imp \in Impacts, eff \in {0, 3, 9},
       due \in {PyNone, PyDate(0), PyDate(7)},
       req \in SeqsUpTo({<<"x">>, <<"y">>}, MaxInfo),
       rec \in SeqsUpTo({<<"x">>, <<"y">>}, MaxInfo) :
        /\ row = Task(-1, st, imp, PyInt(eff), due, req, rec, <<>>, "P4",
                      RInt(0))
        /\ tasks_df = <<>>

\* inputs that vary the writing of the info labels
InfoInputs ==
    \E st \in {"Backlog", "Waiting Info", "Blocked"},
       due \in {PyNone, PyDate(0)},
       req \in SeqsUpTo(Items, MaxInfo), rec \in SeqsUpTo(Items, MaxInfo) :
        /\ row = Task(-1, st, "Critical", PyInt(0), due, req, rec, <<>>, "P4",
                      RInt(0))
        /\ tasks_df = <<>>

NoResult == [raised |-> FALSE, score |-> RInt(0), label |-> "", status |-> "",
             escalated |-> FALSE]

NoLocals == [called |-> FALSE, raised |-> FALSE, deps_open |-> FALSE, base |-> 0,
             urgency |-> RInt(0), info |-> RInt(0), effort_pen |-> RInt(0),
             blocked_pen |-> RInt(0)]

Init ==
    /\ (DepInputs \/ ScoreInputs \/ InfoInputs)
    /\ days_window = DefaultDaysWindow
    /\ today = 0
    /\ pc = "input"
    /\ result = NoResult
    /\ locals = NoLocals
    /\ store = <<>>
    /\ t5 = <<>>
    /\ dangling = {}
    /\ requests = <<>>

\* score, label, status, esc = recalc_priority(row, df)
Score ==
    /\ pc = "input"
    /\ result' = RecalcPriority(row, tasks_df, days_window, today)
    /\ locals' = Terms(row, tasks_df, days_window, today)
    /\ pc' = "scored"
    /\ UNCHANGED <<row, tasks_df, days_window, today, store, t5,
                 dangling, requests>>

\* the caller writes the three outputs into the record and saves it
\* (fastapi_app.py line 195, priority_flow_planner.py lines 178-180)
Persist ==
    /\ pc = "scored"
    /\ ~result.raised
    /\ row' = [row EXCEPT !.priority_score = result.score,
                          !.priority_label = result.label,
                          !.status = result.status]
    /\ pc' = "saved"
    /\ UNCHANGED <<tasks_df, days_window, today, result, locals, store, t5,
                 dangling, requests>>

\* a later request scores the saved record again
Rescore ==
    /\ pc = "saved"
    /\ result' = RecalcPriority(row, tasks_df, days_window, today)
    /\ locals' = Terms(row, tasks_df, days_window, today)
    /\ pc' = "rescored"
    /\ UNCHANGED <<row, tasks_df, days_window, today, store, t5,
                 dangling, requests>>

Next == Score \/ Persist \/ Rescore

Spec == Init /\ [][Next]_vars

-----------------------------------------------------------------------------
(* The urgency term over the calendar (specification SpecUrgency): a task  *)
(* with a fixed due date is scored, the date changes, it is scored again.  *)

DueDates ==
    {PyNone, PyStr(<<>>), PyStr(<<"x">>)} \cup {PyDate(d) : d \in 0..MaxDay}

InitUrgency ==
    /\ \E due \in DueDates :
          row = Task(-1, "Backlog", "Medium", PyInt(3), due, <<>>, <<>>, <<>>,
                     "P4", RInt(0))
    /\ tasks_df = <<>>
    /\ days_window \in (1..MaxWindow) \cup {DefaultDaysWindow}
    /\ today \in 0..MaxDay
    /\ pc = "input"
    /\ result = NoResult
    /\ locals = NoLocals
    /\ store = <<>>
    /\ t5 = <<>>
    /\ dangling = {}
    /\ requests = <<>>

\* date.today() moves on by a day; the next request scores the task again
Tick ==
    /\ today < MaxDay
    /\ today' = today + 1
    /\ pc' = "input"
    /\ UNCHANGED <<row, tasks_df, days_window, result, locals, store, t5,
                 dangling, requests>>

NextUrgency == Score \/ Tick

SpecUrgency == InitUrgency /\ [][NextUrgency]_vars

-----------------------------------------------------------------------------
(* recalc_priority on records with missing or malformed optional fields    *)
(* and any days_window (specification SpecLoose).                          *)

LooseEfforts ==
    {PyInt(3), PyInt(0), PyInt(99), PyStr(<<"7">>), PyStr(<<"x">>)}

LooseDeps ==
    {<<>>, <<PyInt(1)>>, <<PyInt(9)>>, <<PyStr(<<"1">>)>>, <<PyStr(<<"x">>)>>,
     <<PyNone>>}

LooseDrops ==
    {{}, {"effort"}, {"due_date"}, {"business_impact"}, {"dependencies"},
     {"required_info", "received_info"}, {"status"},
     {"effort", "due_date", "business_impact", "dependencies", "required_info",
      "received_info", "status"}}

InitLoose ==
    /\ \E imp \in {"High", "Urgent"}, eff \in LooseEfforts,
          due \in {PyNone, PyStr(<<>>), PyStr(<<"x">>), PyDate(0), PyDate(7)},
          req \in SeqsUpTo({<<"x">>}, 1), deps \in LooseDeps,
          K \in LooseDrops :
            row = Drop(Task(-1, "Backlog", imp, eff, due, req, <<>>, deps, "P4",
                            RInt(0)), K)
    /\ tasks_df \in {<<>>, Snapshot([i \in {1} |-> "Done"])}
    /\ days_window \in {-7, 0, 1, DefaultDaysWindow}
    /\ today = 0
    /\ pc = "input"
    /\ result = NoResult
    /\ locals = NoLocals
    /\ store = <<>>
    /\ t5 = <<>>
    /\ dangling = {}
    /\ requests = <<>>

NextLoose == Score

SpecLoose == InitLoose /\ [][NextLoose]_vars

-----------------------------------------------------------------------------
(* planner_db.py: top5 (specification SpecTop).                            *)

\* "P1" < "P2" < "P3" < "P4" as Python compares the strings
LabelRank(l) ==
    IF l = "P1" THEN 1 ELSE IF l = "P2" THEN 2 ELSE IF l = "P3" THEN 3 ELSE 4

\* mutation: both sort keys ascending
SortsBefore_ScoreAscending(a, b) ==
    \/ LabelRank(a.priority_label) < LabelRank(b.priority_label)
    \/ /\ a.priority_label = b.priority_label
       /\ RLt(a.priority_score, b.priority_score)

\* the order of sort_values(by=[priority_label, priority_score],
\* ascending=[True, False])
SortsBefore(a, b) ==
    \/ LabelRank(a.priority_label) < LabelRank(b.priority_label)
    \/ /\ a.priority_label = b.priority_label
       /\ RLt(b.priority_score, a.priority_score)

\* x put into a sorted list behind every row it does not sort before
RECURSIVE Insert(_, _)
Insert(x, l) ==
    IF l = <<>> THEN <<x>>
    ELSE IF SortsBefore(x, Head(l)) THEN <<x>> \o l
    ELSE <<Head(l)>> \o Insert(x, Tail(l))

\* a stable sort of the rows
RECURSIVE SortValues(_)
SortValues(df) ==
    IF df = <<>> THEN <<>>
    ELSE Insert(df[Len(df)], SortValues(SubSeq(df, 1, Len(df) - 1)))

\* the columns top5 keeps (title and category are not modelled)
Project(r) ==
    [id |-> r.id, status |-> r.status, priority_label |-> r.priority_label,
     priority_score |-> r.priority_score, due_date |-> r.due_date]

Top5(df) ==
    IF df = <<>> THEN df
    ELSE LET sorted == SortValues(df)
             head == SubSeq(sorted, 1, Min(5, Len(sorted)))
         IN  [k \in 1..Len(head) |-> Project(head[k])]

\* (label, score) pairs of the rows handed to top5: those of the ordering
\* example (P2/50, P1/90, P1/70, P3/10) and P2/70
TopRows ==
    {<<"P1", RInt(90)>>, <<"P1", RInt(70)>>, <<"P2", RInt(70)>>,
     <<"P2", RInt(50)>>, <<"P3", RInt(10)>>}

\* a table of n tasks with ids 1..n and the labels and scores f
ScoredTable(f) ==
    [k \in DOMAIN f |->
        Task(k, "Backlog", "Medium", PyInt(3), PyNone, <<>>, <<>>, <<>>,
             f[k][1], f[k][2])]

InitTop ==
    /\ \E n \in 0..MaxRows : \E f \in [1..n -> TopRows] :
          tasks_df = ScoredTable(f)
    /\ row = Task(-1, "Backlog", "Medium", PyInt(3), PyNone, <<>>, <<>>, <<>>,
                  "P4", RInt(0))
    /\ days_window = DefaultDaysWindow
    /\ today = 0
    /\ pc = "input"
    /\ result = NoResult
    /\ locals = NoLocals
    /\ store = <<>>
    /\ t5 = <<>>
    /\ dangling = {}
    /\ requests = <<>>

\* t5 = top5(df)
TopFive ==
    /\ pc = "input"
    /\ t5' = Top5(tasks_df)
    /\ pc' = "top"
    /\ UNCHANGED <<row, tasks_df, days_window, today, result, locals, store,
                 dangling, requests>>

NextTop == TopFive

SpecTop == InitTop /\ [][NextTop]_vars

-----------------------------------------------------------------------------
(* The task store and the callers that write to it (specification          *)
(* SpecStore).  store maps the id of each stored task to its record; each  *)
(* handler runs from its read of the table to its write without another    *)
(* handler in between.  dangling is a record the program does not keep:    *)
(* the pairs <<i, d>> of a stored task i and an id d that i has listed as  *)
(* a dependency since before the task d was deleted.                       *)

\* a new row before any field is assigned: the column defaults of Task
ColumnDefaults(id) ==
    Task(id, "Backlog", "Medium", PyInt(3), PyNone, <<>>, <<>>, <<>>, "P4",
         RInt(0))

\* {**a, **b}
Merge(a, b) ==
    [k \in DOMAIN a \cup DOMAIN b |-> IF k \in DOMAIN b THEN b[k] ELSE a[k]]

\* the "x or default" coercions of fetch_tasks_df on one row
FetchRow(r) ==
    [r EXCEPT !.status = IF @ = "" THEN "Backlog" ELSE @,
              !.business_impact = IF @ = "" THEN "Medium" ELSE @,
              !.effort = IF @ \in {PyInt(0), PyNone} THEN PyInt(3) ELSE @,
              !.priority_label = IF @ = "" THEN "P4" ELSE @]

\* fetch_tasks_df(): every stored row, in id order
FetchTasksDf(st) ==
    LET ids == SortedIds(DOMAIN st)
    IN  [k \in 1..Len(ids) |-> FetchRow(st[ids[k]])]

\* the id the database gives a new row: one past the largest id in use
NewId(st) ==
    IF DOMAIN st = {} THEN 1
    ELSE (CHOOSE m \in DOMAIN st : \A i \in DOMAIN st : i <= m) + 1

\* upsert_task_dict(task, task_id); task_id 0 stands for None (both falsy)
UpsertTaskDict(st, task, task_id) ==
    LET id == IF task_id # 0 THEN task_id ELSE NewId(st)
        old == IF id \in DOMAIN st THEN st[id] ELSE ColumnDefaults(id)
        obj == [k \in DOMAIN old |-> IF k \in DOMAIN task THEN task[k] ELSE old[k]]
    IN  [i \in (DOMAIN st \ {id}) \cup {obj.id} |->
            IF i = obj.id THEN obj ELSE st[i]]

\* delete_task_by_id(task_id)
DeleteTaskById(st, task_id) ==
    [i \in DOMAIN st \ {task_id} |-> st[i]]

\* the three outputs written into the dict (fastapi_app.py lines 151-153
\* and 195, priority_flow_planner.py lines 178-180)
WithOutputs(task, res) ==
    Merge(task, [priority_score |-> res.score, priority_label |-> res.label,
                 status |-> res.status])

\* build_task(payload)
BuildTask(payload, st, now) ==
    LET p == Merge([status |-> "Backlog", priority_label |-> "P4",
                    priority_score |-> RInt(0)], payload)
        df == FetchTasksDf(st)
        s == Merge(p, [id |-> -1, dependencies |-> <<>>])
    IN  WithOutputs(p, RecalcPriority(s, df, DefaultDaysWindow, now))

\* list(set): the members of S in some order
ListsOf(S) == {l \in [1..Cardinality(S) -> S] : Range(l) = S}

\* the ids as the form parses them from its text field
IdList(S) == [k \in 1..Len(SortedIds(S)) |-> PyInt(SortedIds(S)[k])]

StoreItems == {<<"x">>}

InitStore ==
    /\ store = <<>>
    /\ today = 0
    /\ days_window = DefaultDaysWindow
    /\ pc = "idle"
    /\ row = ColumnDefaults(-1)
    /\ tasks_df = <<>>
    /\ result = NoResult
    /\ locals = NoLocals
    /\ t5 = <<>>
    /\ dangling = {}
    /\ requests = <<>>

\* the webhook's "add:" / "agregar" branch
WebhookCreate ==
    /\ NewId(store) <= MaxTasks
    /\ \E imp \in {"Medium", "Critical"}, req \in SeqsUpTo(StoreItems, 1) :
          LET payload == [business_impact |-> imp, effort |-> PyInt(3),
                          required_info |-> req, received_info |-> <<>>]
          IN  store' = UpsertTaskDict(store, BuildTask(payload, store, today), 0)
    /\ UNCHANGED <<row, tasks_df, days_window, today, pc, result, locals, t5,
                 dangling, requests>>

\* the webhook's "recibi: <item> para <id>" branch, for a task that exists
WebhookRecibi ==
    /\ \E task_id \in DOMAIN store, item \in StoreItems :
          LET df == FetchTasksDf(store)
              r0 == CHOOSE x \in Range(df) : x.id = task_id
          IN  \E rec \in ListsOf(Range(r0.received_info) \cup {item}) :
                LET r == [r0 EXCEPT !.received_info = rec]
                    res == RecalcPriority(r, df, DefaultDaysWindow, today)
                IN  store' = UpsertTaskDict(store, WithOutputs(r, res), task_id)
    /\ UNCHANGED <<row, tasks_df, days_window, today, pc, result, locals, t5,
                 dangling, requests>>

\* the form's "Guardar / Actualizar" button; edit_id 0 is a new task; the
\* dependencies entered are ids of other stored tasks
FormSave ==
    /\ \E edit_id \in DOMAIN store \cup {0} :
          /\ edit_id = 0 => NewId(store) <= MaxTasks
          /\ \E st \in {"Backlog", "Waiting Info", "Blocked", "Done"},
                req \in SeqsUpTo(StoreItems, 1), rec \in SeqsUpTo(StoreItems, 1),
                D \in SUBSET (DOMAIN store \ {edit_id}) :
                LET df == FetchTasksDf(store)
                    task == [status |-> st, business_impact |-> "Medium",
                             effort |-> PyInt(3), due_date |-> PyNone,
                             required_info |-> req, received_info |-> rec,
                             dependencies |-> IdList(D)]
                    temp == Merge(task, [id |-> IF edit_id # 0 THEN edit_id ELSE -1])
                    res == RecalcPriority(temp, df, DefaultDaysWindow, today)
                IN  /\ store' = UpsertTaskDict(store, WithOutputs(task, res), edit_id)
                    /\ dangling' = {p \in dangling : p[1] = edit_id => p[2] \in D}
    /\ UNCHANGED <<row, tasks_df, days_window, today, pc, result, locals, t5,
                 requests>>

\* the stored tasks other than d that list the id d as a dependency
Dependents(st, d) ==
    {i \in DOMAIN st \ {d} :
        \E k \in 1..Len(st[i].dependencies) : st[i].dependencies[k].i = d}

\* the form's "Eliminar" button
FormDelete ==
    /\ \E edit_id \in DOMAIN store :
          /\ store' = DeleteTaskById(store, edit_id)
          /\ dangling' = {p \in dangling : p[1] # edit_id}
                            \cup {<<i, edit_id>> : i \in Dependents(store, edit_id)}
    /\ UNCHANGED <<row, tasks_df, days_window, today, pc, result, locals, t5,
                 requests>>

NextStore == WebhookCreate \/ WebhookRecibi \/ FormSave \/ FormDelete

SpecStore == InitStore /\ [][NextStore]_vars

-----------------------------------------------------------------------------
(* Two "recibi" requests of the webhook in flight at once (specification   *)
(* SpecRace).  A request reads the table with fetch_tasks_df and writes    *)
(* the task back with upsert_task_dict in a session of its own; nothing    *)
(* in the handler holds a lock or a transaction from the read to the       *)
(* write, so the steps of another request (another worker process of the   *)
(* server) can fall in between.  requests[q] is the state of request q:    *)
(* its position, the item and task id of its message, and its local df.    *)

Requests == {1, 2}

RaceItems == {<<"x">>, <<"y">>}

\* the store holds task 1, as the webhook created it; each request names
\* an item and a task id
InitRace ==
    /\ \E imp \in {"Medium", "Critical"}, req \in SeqsUpTo(RaceItems, MaxInfo) :
          LET payload == [business_impact |-> imp, effort |-> PyInt(3),
                          required_info |-> req, received_info |-> <<>>]
          IN  store = UpsertTaskDict(<<>>, BuildTask(payload, <<>>, 0), 0)
    /\ requests \in [Requests ->
                        {[pc |-> "start", item |-> it, task_id |-> id,
                          df |-> <<>>] : it \in RaceItems, id \in 1..MaxId}]
    /\ today = 0
    /\ days_window = DefaultDaysWindow
    /\ pc = "idle"
    /\ row = ColumnDefaults(-1)
    /\ tasks_df = <<>>
    /\ result = NoResult
    /\ locals = NoLocals
    /\ t5 = <<>>
    /\ dangling = {}

\* df = fetch_tasks_df(); row = df[df["id"]==task_id]; a request for a task
\* that is not there is answered at once
RecibiFetch(q) ==
    /\ requests[q].pc = "start"
    /\ LET df == FetchTasksDf(store)
       IN  IF \E k \in 1..Len(df) : df[k].id = requests[q].task_id
           THEN requests' = [requests EXCEPT ![q].pc = "fetched", ![q].df = df]
           ELSE requests' = [requests EXCEPT ![q].pc = "done"]
    /\ UNCHANGED <<row, tasks_df, days_window, today, pc, result, locals, store,
                   t5, dangling>>

\* the rest of the branch, from the local df: add the item, score, write
\* the whole record back
RecibiUpsert(q) ==
    /\ requests[q].pc = "fetched"
    /\ LET df == requests[q].df
           task_id == requests[q].task_id
           r0 == CHOOSE x \in Range(df) : x.id = task_id
       IN  \E rec \in ListsOf(Range(r0.received_info) \cup {requests[q].item}) :
             LET r == [r0 EXCEPT !.received_info = rec]
                 res == RecalcPriority(r, df, DefaultDaysWindow, today)
             IN  store' = UpsertTaskDict(store, WithOutputs(r, res), task_id)
    /\ requests' = [requests EXCEPT ![q].pc = "done"]
    /\ UNCHANGED <<row, tasks_df, days_window, today, pc, result, locals, t5,
                   dangling>>

NextRace == \E q \in Requests : RecibiFetch(q) \/ RecibiUpsert(q)

SpecRace == InitRace /\ [][NextRace]_vars

-----------------------------------------------------------------------------
(* Vocabulary of the properties.                                           *)

\* a result of recalc_priority for the record in row is at hand
Scored == pc \in {"scored", "rescored"}

\* case-insensitive, whitespace-trimmed form of an info label
Norm(x) == Lower(Strip(x))

\* some dependency id has no row with that id and status Done
HasOpenDependency(r, df) ==
    \E k \in 1..Len(r.dependencies) :
        ~ \E j \in 1..Len(df) :
            df[j].id = r.dependencies[k].i /\ df[j].status = "Done"

\* required_info is empty, or each of its entries is a different label
\* (after normalisation) and received_info holds them all: ratio >= 1.0
InfoComplete(r) ==
    \/ r.required_info = <<>>
    \/ Cardinality({Norm(x) : x \in Range(r.required_info)}
                   \cap {Norm(x) : x \in Range(r.received_info)})
          >= Len(r.required_info)

\* no entry of the list is written twice
NoRepeat(l) == \A i, j \in 1..Len(l) : l[i] = l[j] => i = j

\* every entry of required_info has a match in received_info
AllReceived(r) ==
    \A x \in Range(r.required_info) :
        \E y \in Range(r.received_info) : Norm(x) = Norm(y)

\* the four terms that do not depend on blocking, summed
UnblockedSum(r) ==
    RAdd(RAdd(RAdd(RInt(ImpactPoints(r.business_impact)),
                   UrgencyPoints(r.due_date, days_window, today).v),
              InfoPoints(r.required_info, r.received_info)),
         EffortPenalty(r.effort.i))

Clamp(x) == RMax(RInt(0), RMin(RInt(100), x))

-----------------------------------------------------------------------------
(* Properties of recalc_priority (specification Spec).                     *)

\* C1: a task with an open dependency (a dependency id with no Done task of
\* that id in all_tasks, dangling ids included) whose input status is not
\* Done is returned with status Blocked.
C1_OpenDependencyBlocks ==
    (Scored /\ HasOpenDependency(row, tasks_df) /\ row.status # "Done")
        => (~result.raised /\ result.status = "Blocked")

\* C1 witness: a Waiting Info task with all info received and a dependency
\* id that matches no task at all has been scored and came back Blocked.
C1_Witness ==
    /\ pc = "scored"
    /\ row.status = "Waiting Info"
    /\ row.required_info = <<<<"x">>>> /\ row.received_info = <<<<"x">>>>
    /\ row.dependencies = <<PyInt(1)>>
    /\ tasks_df = <<>>
    /\ result.status = "Blocked"

\* C2 as claimed: a Waiting Info task with no open dependency and
\* info_ratio >= 1.0 (1.0 when required_info is empty) is returned Backlog.
C2_AsClaimed ==
    (Scored /\ row.status = "Waiting Info" /\ ~HasOpenDependency(row, tasks_df)
        /\ InfoComplete(row))
        => (~result.raised /\ result.status = "Backlog")

\* C3 as claimed: escalated holds exactly when the label is P1 and the
\* info ratio, taken with the case-insensitive trimmed intersection of the
\* info points, is at least 1.0.
C3_AsClaimed ==
    Scored => (result.escalated <=> (result.label = "P1" /\ InfoComplete(row)))

\* C4 as claimed: the info points are 0 for an empty required_info and 40
\* whenever every entry of a non-empty required_info has a match in
\* received_info under case-insensitive trimmed comparison (stated here for
\* lists that write no entry twice, so two entries differ at least by case
\* or surrounding whitespace).
C4_AsClaimed ==
    Scored =>
        /\ row.required_info = <<>> => locals.info = RInt(0)
        /\ (row.required_info # <<>> /\ NoRepeat(row.required_info)
              /\ AllReceived(row)) => locals.info = RInt(40)

\* C5: the returned score lies in [0,100] and the label is the step
\* function of that score with boundaries 80, 60 and 40.
C5_ScoreClampedLabelSteps ==
    Scored =>
        LET n == result.score[1]
            d == result.score[2]
        IN  /\ ~result.raised
            /\ d > 0 /\ 0 <= n /\ n <= 100 * d
            /\ result.score = Clamp(RAdd(UnblockedSum(row),
                   BlockedPenalty(row.status, HasOpenDependency(row, tasks_df))))
            /\ (result.label = "P1") <=> (n >= 80 * d)
            /\ (result.label = "P2") <=> (60 * d <= n /\ n < 80 * d)
            /\ (result.label = "P3") <=> (40 * d <= n /\ n < 60 * d)
            /\ (result.label = "P4") <=> (n < 40 * d)

\* C5 witness: Critical, due today, both required items received, effort 3:
\* the raw sum 107 is returned as score 100 with label P1.
C5_Witness ==
    /\ pc = "scored"
    /\ row.business_impact = "Critical" /\ row.due_date = PyDate(today)
    /\ row.required_info = <<<<"x">>, <<"y">>>>
    /\ row.received_info = <<<<"x">>, <<"y">>>>
    /\ row.effort = PyInt(3) /\ row.status = "Backlog"
    /\ UnblockedSum(row) = RInt(107)
    /\ result.score = RInt(100) /\ result.label = "P1"

\* C10: scoring a task whose status is Blocked returns Blocked with the -25
\* penalty in the score, whatever its dependencies; and writing the result
\* back leaves it Blocked, so it stays Blocked over any run of re-scorings.
C10_BlockedStaysBlocked ==
    [][/\ (pc \in {"input", "saved"} /\ row.status = "Blocked")
            => /\ ~result'.raised
               /\ result'.status = "Blocked"
               /\ locals'.blocked_pen = RInt(-25)
               /\ result'.score = Clamp(RAdd(UnblockedSum(row), RInt(-25)))
       /\ (pc = "scored" /\ row.status = "Blocked")
            => row'.status = "Blocked"]_vars

\* C10 witness: a Blocked task whose dependencies are all Done was scored,
\* saved and scored again, and is still Blocked.
C10_Witness ==
    /\ pc = "rescored"
    /\ row.status = "Blocked"
    /\ row.dependencies # <<>>
    /\ ~HasOpenDependency(row, tasks_df)
    /\ result.status = "Blocked"

\* C11: a task whose input status is Done is returned Done, whatever its
\* dependencies, info lists and the snapshot; and the returned status is
\* always the input status, or Backlog for an input of Waiting Info, or
\* Blocked for a task with an open dependency.
C11_DoneIsTerminal ==
    Scored =>
        /\ ~result.raised
        /\ row.status = "Done" => result.status = "Done"
        /\ \/ result.status = row.status
           \/ result.status = "Backlog" /\ row.status = "Waiting Info"
           \/ result.status = "Blocked" /\ HasOpenDependency(row, tasks_df)

\* C11 witness: a Done task with required info outstanding and a dependency
\* on a task that is not Done has been scored and came back Done.
C11_Witness ==
    /\ pc = "scored"
    /\ row.status = "Done"
    /\ row.required_info = <<<<"x">>>> /\ row.received_info = <<>>
    /\ row.dependencies = <<PyInt(1)>>
    /\ Len(tasks_df) = 1 /\ tasks_df[1].id = 1 /\ tasks_df[1].status = "Backlog"
    /\ locals.deps_open
    /\ result.status = "Done"

\* C13: with the snapshot and the date fixed, scoring the task again with
\* its status replaced by the status the first scoring returned yields the
\* same score, label, status and escalated flag.
C13_RescoreIsIdempotent ==
    [][(pc = "saved" /\ pc' = "rescored")
          => /\ row.status = result.status
             /\ ~result'.raised
             /\ result'.score = result.score
             /\ result'.label = result.label
             /\ result'.status = result.status
             /\ result'.escalated = result.escalated]_vars

\* C13 witness: a task with all info received and an open dependency was
\* returned Blocked with the penalty, saved with that status and scored
\* again: Blocked again, with the penalty counted once.
C13_Witness ==
    /\ pc = "rescored"
    /\ row.status = "Blocked"
    /\ row.required_info = <<<<"x">>>> /\ row.received_info = <<<<"x">>>>
    /\ HasOpenDependency(row, tasks_df)
    /\ result.status = "Blocked"
    /\ locals.blocked_pen = RInt(-25)
    /\ result.score = Clamp(RAdd(UnblockedSum(row), RInt(-25)))
    /\ result.score = row.priority_score

-----------------------------------------------------------------------------
(* Properties of the urgency term (specification SpecUrgency).             *)

\* due minus today in whole days, for a parseable due date
DaysLeft == row.due_date.i - today

\* C9: for a parseable due date and a positive days_window the urgency
\* points lie in [0,30], are 30 when days_left <= 0 and 0 when
\* days_left >= days_window, and do not decrease from one scoring to the
\* next as the date advances (days_left shrinks); with no due date they
\* are 0.
C9_UrgencyRamp ==
    [][pc' = "scored" =>
        LET u == locals'.urgency IN
        /\ ~locals'.raised
        /\ RLe(RInt(0), u) /\ RLe(u, RInt(30))
        /\ NotDue(row.due_date) => u = RInt(0)
        /\ (row.due_date.t = "date" /\ DaysLeft <= 0) => u = RInt(30)
        /\ (row.due_date.t = "date" /\ DaysLeft >= days_window) => u = RInt(0)
        /\ (row.due_date.t = "date" /\ locals.called)
              => RLe(locals.urgency, u)]_vars

\* C9 witness: a task due in 7 days is scored with the 14-day window after
\* an earlier scoring of it: 15 points, more than before.
C9_Witness ==
    /\ pc = "scored"
    /\ row.due_date.t = "date" /\ DaysLeft = 7
    /\ days_window = DefaultDaysWindow
    /\ today > 0
    /\ locals.urgency = RInt(15)

-----------------------------------------------------------------------------
(* Properties on malformed input (specification SpecLoose).                *)

\* C6 as claimed: recalc_priority returns a result for every record with
\* missing or malformed optional fields and every days_window.
C6_AsClaimed == Scored => ~result.raised

-----------------------------------------------------------------------------
(* Properties of top5 (specification SpecTop).                             *)

\* a comes before b in the digest order: lower label, or the same label and
\* a higher score
Precedes(a, b) ==
    \/ LabelRank(a.priority_label) < LabelRank(b.priority_label)
    \/ /\ a.priority_label = b.priority_label
       /\ a.priority_score[1] * b.priority_score[2]
            > b.priority_score[1] * a.priority_score[2]

\* C8: top5 returns at most 5 rows, each a row of the table and none
\* twice, ordered by label ascending and by score descending within a
\* label, and no row left out comes before a row that is in.
C8_TopFiveOrdered ==
    pc = "top" =>
        /\ Len(t5) <= 5
        /\ Len(t5) = Min(5, Len(tasks_df))
        /\ \A i \in 1..Len(t5) :
              \E k \in 1..Len(tasks_df) : t5[i] = Project(tasks_df[k])
        /\ \A i, j \in 1..Len(t5) : t5[i].id = t5[j].id => i = j
        /\ \A i, j \in 1..Len(t5) : i < j => ~Precedes(t5[j], t5[i])
        /\ \A k \in 1..Len(tasks_df) :
              (\A i \in 1..Len(t5) : t5[i].id # tasks_df[k].id)
                  => \A i \in 1..Len(t5) : ~Precedes(tasks_df[k], t5[i])

\* C8 witness: the tasks P2/50, P1/90, P1/70, P3/10, P2/70, P1/90 give
\* the five tasks 2, 6, 3, 5, 1 and leave the P3 task out.
C8_Witness ==
    /\ pc = "top"
    /\ Len(tasks_df) = 6
    /\ [k \in 1..6 |-> <<tasks_df[k].priority_label, tasks_df[k].priority_score>>]
         = <<<<"P2", RInt(50)>>, <<"P1", RInt(90)>>, <<"P1", RInt(70)>>,
             <<"P3", RInt(10)>>, <<"P2", RInt(70)>>, <<"P1", RInt(90)>>>>
    /\ [k \in 1..Len(t5) |-> t5[k].id] = <<2, 6, 3, 5, 1>>

-----------------------------------------------------------------------------
(* Properties of the store (specification SpecStore).                      *)

\* what recalc_priority yields today for the stored task id, read from the
\* store as it is now
Fresh(id) ==
    LET df == FetchTasksDf(store)
        r == CHOOSE x \in Range(df) : x.id = id
    IN  RecalcPriority(r, df, DefaultDaysWindow, today)

\* C7 as claimed: after any sequence of creates, received-info updates,
\* form saves and deletes, every stored task's priority_score and
\* priority_label are what recalc_priority yields for its current fields
\* against the current store.
C7_AsClaimed ==
    \A id \in DOMAIN store :
        /\ store[id].priority_score = Fresh(id).score
        /\ store[id].priority_label = Fresh(id).label

\* the record r of task id lists an id that was deleted while it listed it
ListsDeleted(dg, id, r) ==
    \E k \in 1..Len(r.dependencies) : <<id, r.dependencies[k].i>> \in dg

\* C12 as claimed: a step that removes a record removes that one only and
\* leaves every other record as it was; and whenever a task that lists a
\* deleted id as a dependency is scored and written afterwards, the
\* dependency counts as open: the score carries the -25 penalty and the
\* status is Blocked, or Done for a Done task.
C12_AsClaimed ==
    [][/\ \A id \in DOMAIN store \ DOMAIN store' :
             store' = [i \in DOMAIN store \ {id} |-> store[i]]
       /\ \A id \in DOMAIN store \cap DOMAIN store' :
             (store'[id] # store[id] /\ ListsDeleted(dangling', id, store'[id]))
                 => /\ store'[id].status \in {"Blocked", "Done"}
                    /\ store'[id].priority_score
                          = Clamp(RAdd(UnblockedSum(store'[id]), RInt(-25)))]_vars

-----------------------------------------------------------------------------
(* Properties of concurrent requests (specification SpecRace).             *)

\* C14 as claimed: once two received-info requests for the same existing
\* task have both completed, however their reads and writes fell, the
\* stored received_info of the task holds both items, and the stored
\* score, label and status are those of recalc_priority on the stored
\* record.
C14_AsClaimed ==
    (\A q \in Requests : requests[q].pc = "done" /\ requests[q].task_id = 1)
        => /\ \A q \in Requests :
                 requests[q].item \in Range(store[1].received_info)
           /\ store[1].priority_score = Fresh(1).score
           /\ store[1].priority_label = Fresh(1).label
           /\ store[1].status = Fresh(1).status

====
